---- MODULE Spec2Model ----
(***************************************************************************)
(* Model of src/main.py: reconciliation of a table's DDL text with the     *)
(* schema-XML ("SXML") snapshot stored in the "-- sqlcl_snapshot" marker   *)
(* line of a .sql file.                                                    *)
(*                                                                         *)
(* Representation.  A metadata string is a sequence of lexical tokens:     *)
(*   [k |-> "decl"]                the <?xml ... ?> declaration            *)
(*   [k |-> "open",    t |-> X]    <X>                                     *)
(*   [k |-> "close",   t |-> X]    </X>                                    *)
(*   [k |-> "empty",   t |-> X]    <X/>                                    *)
(*   [k |-> "emptysp", t |-> X]    <X />  (the form ElementTree writes)    *)
(*   [k |-> "text",    t |-> s]    character data s                        *)
(* String searches of the code (find, count, replace, re.search) become    *)
(* searches over token sequences; ET.fromstring becomes a well-formedness  *)
(* check plus tree navigation over the token sequence; ET.tostring becomes *)
(* Serialize.  All element names live in the default (ku) namespace.       *)
(*                                                                         *)
(* A DDL text is a record [create, lines]: whether a CREATE TABLE ( ... )  *)
(* block is present, and the lines of the block.  A line that starts with  *)
(* a quoted identifier is [q |-> TRUE, name, kw, args, nn]: the identifier,*)
(* the first keyword of the definition, the parenthesised numeric          *)
(* arguments that follow it, and whether "NOT NULL" occurs in it.          *)
(*                                                                         *)
(* A .sql file is [ddl, marker, sxml, eol]: the DDL lines, the kind of     *)
(* marker line that follows them as the last line, the metadata string of  *)
(* its JSON, and whether the file ends with a line break.  The output of   *)
(* "git diff --unified=0" is a record of what its text holds: changed      *)
(* lines other than the marker line, the -/+ pair of the marker line, and  *)
(* the "No newline at end of file" warning after either line of the pair.  *)
(***************************************************************************)
EXTENDS Naturals, Integers, Sequences, FiniteSets, TLC

VARIABLES
    file,                   \* content of the .sql file on disk
    reset_start_with_flag,  \* caller option
    pc,                     \* position inside process_single_file
    pass,                   \* number of the current pass over the file
    original_sxml,          \* data.get("sxml")
    sxml_to_process,        \* working metadata string, or None
    file_was_modified,      \* the modified flag
    fixes_applied_for_log,  \* sequence of fix records
    messages,               \* sequence of message kinds
    initial,                \* result of the initial compare
    final,                  \* result of the final compare
    pre_reorder,            \* metadata string handed to the reorder step
    reorder_result,         \* what the reorder step returned
    writes,                 \* number of writes process_single_file made
    prev,                   \* summary of the previous pass
    baseline,               \* the file as the compared branch of the repository holds it
    git,                    \* locals of get_git_diff
    is_diff_clean,          \* line 568
    log,                    \* the .log file of this pass
    file_before             \* content of the .sql file when the pass began

vars == <<file, reset_start_with_flag, pc, pass, original_sxml, sxml_to_process,
          file_was_modified, fixes_applied_for_log, messages, initial, final,
          pre_reorder, reorder_result, writes, prev, baseline, git, is_diff_clean,
          log, file_before>>

\* what the steps before the version-control diff leave alone
diff_vars == <<baseline, git, is_diff_clean, log, file_before>>

\* Python's None as an attribute value
None == "None"
\* a metadata string that is falsy in Python (None or ''): no document
NoDoc == <<>>

----------------------------------------------------------------------------
\* Tokens

Decl == [k |-> "decl", t |-> "xml"]
O(x) == [k |-> "open", t |-> x]
C(x) == [k |-> "close", t |-> x]
E(x) == [k |-> "empty", t |-> x]
ES(x) == [k |-> "emptysp", t |-> x]
T(s) == [k |-> "text", t |-> s]
Elem(x, s) == <<O(x), T(s), C(x)>>

\* the whitespace strings that occur in the modelled documents
WS6 == "      "
NL == "\n"
NL6 == "\n      "
NL8 == "\n        "
Whitespace == {WS6, NL, NL6, NL8, " "}
HasNewline(s) == s \in {NL, NL6, NL8}
IsWs(tok) == tok.k = "text" /\ tok.t \in Whitespace
IsStart(tok) == tok.k \in {"open", "empty", "emptysp"}
IsEmptyTag(tok) == tok.k \in {"empty", "emptysp"}

\* str.upper() on the identifiers of the model
Upper(s) ==
    CASE s = "id" -> "ID"
      [] s = "a" -> "A"
      [] s = "b" -> "B"
      [] OTHER -> s

\* \d+
Digits == {"0", "1", "2", "6", "10", "20", "300", "500"}

Min(S) == CHOOSE x \in S : \A y \in S : x <= y
Max(S) == CHOOSE x \in S : \A y \in S : x >= y

RECURSIVE SetToSeq(_)
SetToSeq(S) == IF S = {} THEN <<>> ELSE <<Min(S)>> \o SetToSeq(S \ {Min(S)})

\* sorted(list(S)) for a set of column names: the model's names in
\* alphabetical order
NameOrder == <<"A", "B", "C", "ID">>
SetToSeqS(S) == SelectSeq(NameOrder, LAMBDA n : n \in S)

RECURSIVE Flatten(_)
Flatten(ss) == IF ss = <<>> THEN <<>> ELSE Head(ss) \o Flatten(Tail(ss))

\* s[:i-1] + ins + s[i-1:] : ins placed before position i (1-based)
InsertBefore(s, i, ins) == SubSeq(s, 1, i - 1) \o ins \o SubSeq(s, i, Len(s))

\* str.find of a single tag token from position from; 0 when absent
FindTok(s, tok, from) ==
    LET hits == {i \in from..Len(s) : s[i] = tok}
    IN IF hits = {} THEN 0 ELSE Min(hits)

\* str.count of a tag token
CountTok(s, tok) == Cardinality({i \in 1..Len(s) : s[i] = tok})

----------------------------------------------------------------------------
\* xml.etree.ElementTree: parsing

\* ET.fromstring succeeds: an optional declaration at the very start, one
\* root element, tags properly nested, character data outside the root only
\* whitespace.
RECURSIVE WF(_, _, _, _)
WF(s, i, stack, rooted) ==
    IF i > Len(s) THEN stack = <<>> /\ rooted
    ELSE LET tok == s[i] IN
        CASE tok.k = "decl" -> i = 1 /\ WF(s, i + 1, stack, rooted)
          [] tok.k = "open" ->
                ~(stack = <<>> /\ rooted) /\ WF(s, i + 1, Append(stack, tok.t), TRUE)
          [] IsEmptyTag(tok) ->
                ~(stack = <<>> /\ rooted) /\ WF(s, i + 1, stack, TRUE)
          [] tok.k = "close" ->
                /\ stack # <<>>
                /\ stack[Len(stack)] = tok.t
                /\ WF(s, i + 1, SubSeq(stack, 1, Len(stack) - 1), rooted)
          [] OTHER -> (stack # <<>> \/ IsWs(tok)) /\ WF(s, i + 1, stack, rooted)

Parses(s) == WF(s, 1, <<>>, FALSE)

\* the open ancestors of every token (the element stack before the token)
RECURSIVE StacksFrom(_, _, _)
StacksFrom(s, i, stack) ==
    IF i > Len(s) THEN <<>>
    ELSE LET tok == s[i]
             nxt == CASE tok.k = "open" -> Append(stack, tok.t)
                      [] tok.k = "close" -> SubSeq(stack, 1, Len(stack) - 1)
                      [] OTHER -> stack
         IN <<stack>> \o StacksFrom(s, i + 1, nxt)

Stacks(s) == StacksFrom(s, 1, <<>>)

\* index of the end tag of the element starting at i (i itself for <X/>)
EndOf(s, st, i) ==
    IF IsEmptyTag(s[i]) THEN i
    ELSE Min({j \in (i + 1)..Len(s) : s[j].k = "close" /\ Len(st[j]) = Len(st[i]) + 1})

\* indices of the child elements of the element starting at i, in order
Children(s, st, i) ==
    IF IsEmptyTag(s[i]) THEN <<>>
    ELSE SetToSeq({j \in (i + 1)..(EndOf(s, st, i) - 1) :
                      IsStart(s[j]) /\ Len(st[j]) = Len(st[i]) + 1})

\* element.find(tag): index of the first child with that tag, 0 when none
Find(s, st, i, tag) ==
    LET hits == {j \in 1..Len(s) :
                    /\ ~IsEmptyTag(s[i])
                    /\ j > i /\ j < EndOf(s, st, i)
                    /\ IsStart(s[j]) /\ s[j].t = tag
                    /\ Len(st[j]) = Len(st[i]) + 1}
    IN IF hits = {} THEN 0 ELSE Min(hits)

\* element.text: the character data right after the start tag, None if none
Text(s, i) ==
    IF s[i].k = "open" /\ i < Len(s) /\ s[i + 1].k = "text" THEN s[i + 1].t ELSE None

\* element.findtext(tag, default)
FindText(s, st, i, tag, default) ==
    LET j == Find(s, st, i, tag)
    IN IF j = 0 THEN default
       ELSE IF Text(s, j) = None THEN "" ELSE Text(s, j)

\* root.find('.//ku:RELATIONAL_TABLE/ku:COL_LIST'): 0 when none
MainColList(s, st) ==
    LET hits == {i \in 1..Len(s) :
                    /\ IsStart(s[i]) /\ s[i].t = "COL_LIST"
                    /\ Len(st[i]) >= 2
                    /\ st[i][Len(st[i])] = "RELATIONAL_TABLE"}
    IN IF hits = {} THEN 0 ELSE Min(hits)

\* col_list.findall('./ku:COL_LIST_ITEM')
Items(s, st, c) ==
    SelectSeq(Children(s, st, c), LAMBDA j : s[j].t = "COL_LIST_ITEM")

----------------------------------------------------------------------------
\* DDL extraction (the regular expressions over the column block)

NoLine == [q |-> FALSE, name |-> "", kw |-> "", args |-> <<>>, nn |-> FALSE]
Col(name, kw, args, nn) == [q |-> TRUE, name |-> name, kw |-> kw, args |-> args, nn |-> nn]

\* re.findall(r'^\s*"([^"]+)"\s+(.*)', columns_block): the column lines
ColLines(ddl) == IF ddl.create THEN SelectSeq(ddl.lines, LAMBDA l : l.q) ELSE <<>>

\* [name.upper() for name in re.findall(r'^\s*"([^"]+)"', columns_block)]
DdlOrderedCols(ddl) ==
    LET ls == ColLines(ddl) IN [i \in 1..Len(ls) |-> Upper(ls[i].name)]

\* the attributes compare_ddl_and_sxml_columns derives from one definition
DdlAttr(l) ==
    LET base == [type |-> None, length |-> None, precision |-> None,
                 scale |-> None, not_null |-> l.nn]
    IN CASE l.kw = "VARCHAR2" ->
              [base EXCEPT !.type = "VARCHAR2",
                           !.length = IF Len(l.args) >= 1 THEN l.args[1] ELSE None]
         [] l.kw = "NUMBER" ->
              IF Len(l.args) = 2
              THEN [base EXCEPT !.type = "NUMBER", !.precision = l.args[1],
                                !.scale = l.args[2]]
              ELSE IF Len(l.args) = 1
              THEN [base EXCEPT !.type = "NUMBER", !.precision = l.args[1],
                                !.scale = "0"]
              ELSE [base EXCEPT !.type = "NUMBER"]
         [] l.kw = "DATE" -> [base EXCEPT !.type = "DATE"]
         [] l.kw = "CLOB" -> [base EXCEPT !.type = "CLOB"]
         [] l.kw = "BLOB" -> [base EXCEPT !.type = "BLOB"]
         [] l.kw = "TIMESTAMP" ->
              [base EXCEPT !.type = "TIMESTAMP_WITH_LOCAL_TIMEZONE",
                           !.scale = IF Len(l.args) = 1 THEN l.args[1] ELSE None]
         [] OTHER -> base

\* ddl_cols: name -> attributes; a later line of the same name overwrites
DdlCols(ddl) ==
    LET ls == ColLines(ddl)
        names == {Upper(ls[i].name) : i \in 1..Len(ls)}
    IN [n \in names |->
          DdlAttr(ls[Max({i \in 1..Len(ls) : Upper(ls[i].name) = n})])]

\* the items of the main column list that have a NAME with text
NamedItems(s, st) ==
    LET c == MainColList(s, st)
    IN IF c = 0 THEN <<>>
       ELSE SelectSeq(Items(s, st, c),
                      LAMBDA j : /\ Find(s, st, j, "NAME") # 0
                                 /\ Text(s, Find(s, st, j, "NAME")) # None)

ItemName(s, st, j) == Upper(Text(s, Find(s, st, j, "NAME")))

SxmlAttr(s, st, j) ==
    [type |-> FindText(s, st, j, "DATATYPE", ""),
     length |-> FindText(s, st, j, "LENGTH", None),
     precision |-> FindText(s, st, j, "PRECISION", None),
     scale |-> FindText(s, st, j, "SCALE", None),
     not_null |-> Find(s, st, j, "NOT_NULL") # 0]

\* sxml_cols: name -> attributes; a later item of the same name overwrites
SxmlCols(s) ==
    LET st == Stacks(s)
        its == NamedItems(s, st)
        names == {ItemName(s, st, its[i]) : i \in 1..Len(its)}
    IN [n \in names |->
          SxmlAttr(s, st, its[Max({i \in 1..Len(its) : ItemName(s, st, its[i]) = n})])]

Fields == {"type", "length", "precision", "scale", "not_null"}

Details(d, x) == {f \in Fields : d[f] # x[f]}

NoDiff == [failed |-> FALSE, in_ddl |-> {}, in_sxml |-> {}, mismatches |-> {}]

compare_ddl_and_sxml_columns(ddl, s) ==
    IF ~Parses(s) THEN [NoDiff EXCEPT !.failed = TRUE]
    ELSE LET ddl_cols == DdlCols(ddl)
             sxml_cols == SxmlCols(s)
             common == DOMAIN ddl_cols \cap DOMAIN sxml_cols
         IN [failed |-> FALSE,
             in_ddl |-> DOMAIN ddl_cols \ DOMAIN sxml_cols,
             in_sxml |-> DOMAIN sxml_cols \ DOMAIN ddl_cols,
             mismatches |->
                {[column |-> c, details |-> Details(ddl_cols[c], sxml_cols[c])] :
                    c \in {x \in common : Details(ddl_cols[x], sxml_cols[x]) # {}}}]

has_discrepancy(d) == d.in_ddl # {} \/ d.in_sxml # {} \/ d.mismatches # {}

----------------------------------------------------------------------------
\* xml.etree.ElementTree: serialisation

\* ET.tostring(root, encoding='unicode'): the declaration and the character
\* data outside the root are not written, and an element without content is
\* written <X />.
RECURSIVE Ser(_, _, _)
Ser(s, i, depth) ==
    IF i > Len(s) THEN <<>>
    ELSE LET tok == s[i] IN
        CASE tok.k = "decl" -> Ser(s, i + 1, depth)
          [] tok.k = "open" ->
                IF i < Len(s) /\ s[i + 1] = C(tok.t)
                THEN <<ES(tok.t)>> \o Ser(s, i + 2, depth)
                ELSE <<tok>> \o Ser(s, i + 1, depth + 1)
          [] IsEmptyTag(tok) -> <<ES(tok.t)>> \o Ser(s, i + 1, depth)
          [] tok.k = "close" -> <<tok>> \o Ser(s, i + 1, depth - 1)
          [] OTHER -> (IF depth = 0 THEN <<>> ELSE <<tok>>) \o Ser(s, i + 1, depth)

Serialize(s) == Ser(s, 1, 0)

----------------------------------------------------------------------------
\* add_missing_columns_to_sxml

\* the child elements written for one column definition
ItemChildren(col_name, l) ==
    LET typ ==
          CASE l.kw = "VARCHAR2" ->
                 <<Elem("DATATYPE", "VARCHAR2")>>
                 \o (IF Len(l.args) >= 1 THEN <<Elem("LENGTH", l.args[1])>> ELSE <<>>)
                 \o <<<<O("CHAR_SEMANTICS"), C("CHAR_SEMANTICS")>>,
                      Elem("COLLATE_NAME", "USING_NLS_COMP")>>
            [] l.kw = "NUMBER" ->
                 <<Elem("DATATYPE", "NUMBER")>>
                 \o (IF Len(l.args) = 2
                     THEN <<Elem("PRECISION", l.args[1]), Elem("SCALE", l.args[2])>>
                     ELSE <<>>)
            [] l.kw = "DATE" -> <<Elem("DATATYPE", "DATE")>>
            [] l.kw = "CLOB" ->
                 <<Elem("DATATYPE", "CLOB"), Elem("COLLATE_NAME", "USING_NLS_COMP")>>
            [] l.kw = "BLOB" -> <<Elem("DATATYPE", "BLOB")>>
            [] l.kw = "TIMESTAMP" ->
                 <<Elem("DATATYPE", "TIMESTAMP_WITH_LOCAL_TIMEZONE")>>
                 \o (IF Len(l.args) = 1 THEN <<Elem("SCALE", l.args[1])>> ELSE <<>>)
            [] OTHER -> <<>>
    IN <<Elem("NAME", col_name)>> \o typ
       \o (IF l.nn THEN <<<<O("NOT_NULL"), C("NOT_NULL")>>>> ELSE <<>>)

\* item_xml: every child on a line of its own, indented by eight blanks
ItemXml(col_name, l) ==
    LET ch == ItemChildren(col_name, l)
    IN <<T(WS6), O("COL_LIST_ITEM")>>
       \o Flatten([i \in 1..Len(ch) |-> <<T(NL8)>> \o ch[i]])
       \o <<T(NL6), C("COL_LIST_ITEM"), T(NL)>>

\* new_col_items for the missing columns, taken in the order given
NewColItems(missing_columns, ddl) ==
    LET ls == ColLines(ddl)
        def(n) == {i \in 1..Len(ls) : Upper(ls[i].name) = n}
        found == SelectSeq(missing_columns, LAMBDA n : def(n) # {})
    IN [i \in 1..Len(found) |-> ItemXml(found[i], ls[Min(def(found[i]))])]

add_missing_columns_to_sxml(missing_columns, ddl, s) ==
    IF ~ddl.create THEN s
    ELSE LET new_col_items == NewColItems(missing_columns, ddl)
             insertion_point == FindTok(s, C("COL_LIST"), 1)
         IN IF new_col_items # <<>> /\ insertion_point # 0
            THEN InsertBefore(s, insertion_point, Flatten(new_col_items))
            ELSE s

----------------------------------------------------------------------------
\* Structural repair

get_start_with_value(schema, table_name) == "1"

MAXVALUE == "9999999999999999999999999999"

\* the block without its ON_NULL element
tags_to_add_without_on_null(start_with_val) ==
    <<O("GENERATION"), T("DEFAULT"), C("GENERATION"),
      O("START_WITH"), T(start_with_val), C("START_WITH"),
      O("INCREMENT"), T("1"), C("INCREMENT"),
      O("MINVALUE"), T("1"), C("MINVALUE"),
      O("MAXVALUE"), T(MAXVALUE), C("MAXVALUE"),
      O("CACHE"), T("20"), C("CACHE"),
      C("IDENTITY_COLUMN")>>

tags_to_add(start_with_val) ==
    <<O("GENERATION"), T("DEFAULT"), C("GENERATION"),
      O("ON_NULL"), C("ON_NULL"),
      O("START_WITH"), T(start_with_val), C("START_WITH"),
      O("INCREMENT"), T("1"), C("INCREMENT"),
      O("MINVALUE"), T("1"), C("MINVALUE"),
      O("MAXVALUE"), T(MAXVALUE), C("MAXVALUE"),
      O("CACHE"), T("20"), C("CACHE"),
      C("IDENTITY_COLUMN")>>

\* re.search(r'<X>(.*?)</X>', s): index of the first <X> that has a </X>
\* after it with no line break in between; 0 when there is no match
SearchElem(s, x) ==
    LET hits == {i \in 1..Len(s) :
                    /\ s[i] = O(x)
                    /\ \E j \in (i + 1)..Len(s) :
                          /\ s[j] = C(x)
                          /\ \A m \in (i + 1)..(j - 1) :
                                ~(s[m].k = "text" /\ HasNewline(s[m].t))}
    IN IF hits = {} THEN 0 ELSE Min(hits)

\* group(1) of that match, when it is plain text
MatchText(s, i) == IF i # 0 /\ s[i + 1].k = "text" THEN s[i + 1].t ELSE ""

NoRepair == [sxml |-> NoDoc, message |-> None]

\* the repair without the second parse of lines 365-370
fix_identity_column_unchecked(s) ==
    LET open_count == CountTok(s, O("IDENTITY_COLUMN"))
        close_count == CountTok(s, C("IDENTITY_COLUMN"))
        schema_match == SearchElem(s, "SCHEMA")
        name_match == SearchElem(s, "NAME")
        start_pos == FindTok(s, O("IDENTITY_COLUMN"), 1)
        schema_end_pos == FindTok(s, C("SCHEMA"), start_pos)
        start_with_val == get_start_with_value(MatchText(s, schema_match),
                                               MatchText(s, name_match))
        corrected_sxml == InsertBefore(s, schema_end_pos + 1, tags_to_add(start_with_val))
    IN IF open_count > close_count /\ schema_match # 0 /\ name_match # 0
          /\ schema_end_pos # 0
       THEN [sxml |-> corrected_sxml, message |-> "Added missing tag"]
       ELSE [sxml |-> NoDoc, message |-> None]

fix_identity_column(s) ==
    LET open_count == CountTok(s, O("IDENTITY_COLUMN"))
        close_count == CountTok(s, C("IDENTITY_COLUMN"))
        schema_match == SearchElem(s, "SCHEMA")
        name_match == SearchElem(s, "NAME")
        start_pos == FindTok(s, O("IDENTITY_COLUMN"), 1)
        schema_end_pos == FindTok(s, C("SCHEMA"), start_pos)
        start_with_val == get_start_with_value(MatchText(s, schema_match),
                                               MatchText(s, name_match))
        corrected_sxml == InsertBefore(s, schema_end_pos + 1, tags_to_add(start_with_val))
    IN IF open_count > close_count /\ schema_match # 0 /\ name_match # 0
          /\ schema_end_pos # 0
       THEN IF Parses(corrected_sxml)
            THEN [sxml |-> corrected_sxml, message |-> "Added missing tag"]
            ELSE [sxml |-> NoDoc, message |-> "still invalid"]
       ELSE NoRepair

----------------------------------------------------------------------------
\* Identity NOT-NULL fixup

\* the first token after position i that is not whitespace text; 0 if none
SkipWs(s, i) ==
    LET hits == {j \in (i + 1)..Len(s) : ~IsWs(s[j])}
    IN IF hits = {} THEN 0 ELSE Min(hits)

\* re.search(r'(<COL_LIST_ITEM>\s*<NAME>ID</NAME>.*?)(</COL_LIST_ITEM>)'):
\* <<first, last>> positions of group(1), or <<0, 0>> when there is no match
IdColMatch(s) ==
    LET hits == {i \in 1..Len(s) :
                    /\ s[i] = O("COL_LIST_ITEM")
                    /\ LET n == SkipWs(s, i)
                       IN /\ n # 0 /\ n + 2 <= Len(s)
                          /\ SubSeq(s, n, n + 2) = Elem("NAME", "ID")
                          /\ FindTok(s, C("COL_LIST_ITEM"), n + 3) # 0}
    IN IF hits = {} THEN <<0, 0>>
       ELSE <<Min(hits), FindTok(s, C("COL_LIST_ITEM"), Min(hits)) - 1>>

NoFix == [sxml |-> NoDoc, message |-> None]

fix_identity_not_null(s) ==
    LET m == IdColMatch(s)
        id_col_block == SubSeq(s, m[1], m[2])
        end_tag == FindTok(id_col_block, C("IDENTITY_COLUMN"), 1)
        \* find() + len(identity_end_tag): right after the end tag; when the
        \* end tag is absent the code inserts 17 characters into the block,
        \* which is inside its first tag: modelled as right after that tag
        insertion_point == IF end_tag # 0 THEN end_tag + 1 ELSE 2
        corrected_block ==
            InsertBefore(id_col_block, insertion_point, <<T(NL8), E("NOT_NULL")>>)
    IN IF m[1] # 0
          /\ FindTok(id_col_block, E("NOT_NULL"), 1) = 0
          /\ FindTok(id_col_block, O("IDENTITY_COLUMN"), 1) # 0
       THEN [sxml |-> SubSeq(s, 1, m[1] - 1) \o corrected_block
                        \o SubSeq(s, m[2] + 1, Len(s)),
             message |-> "Added missing NOT NULL tag to ID column."]
       ELSE NoFix

----------------------------------------------------------------------------
\* Generator start normalization

\* re.search(r'(<START_WITH>)(\d+)(</START_WITH>)'): position of the first
\* match, 0 when there is none
StartWithMatch(s) ==
    LET hits == {i \in 1..(Len(s) - 2) :
                    /\ s[i] = O("START_WITH")
                    /\ s[i + 1].k = "text" /\ s[i + 1].t \in Digits
                    /\ s[i + 2] = C("START_WITH")}
    IN IF hits = {} THEN 0 ELSE Min(hits)

\* str.replace of the matched digits alone: every text equal to the value
ReplaceEveryValue(s, v) ==
    [i \in 1..Len(s) |-> IF s[i] = T(v) THEN T("1") ELSE s[i]]

\* str.replace(group(0), '<START_WITH>1</START_WITH>'): every occurrence of
\* the matched text; occurrences cannot overlap
ReplaceStartWith(s, v) ==
    [i \in 1..Len(s) |->
        IF /\ i >= 2 /\ i < Len(s)
           /\ s[i - 1] = O("START_WITH") /\ s[i] = T(v) /\ s[i + 1] = C("START_WITH")
        THEN T("1") ELSE s[i]]

reset_start_with_value(s) ==
    LET m == StartWithMatch(s)
    IN IF m # 0 /\ s[m + 1].t # "1"
       THEN [sxml |-> ReplaceStartWith(s, s[m + 1].t), was_reset |-> TRUE,
             original_value |-> s[m + 1].t]
       ELSE [sxml |-> s, was_reset |-> FALSE, original_value |-> None]

----------------------------------------------------------------------------
\* Column reordering

\* an element together with its tail (the character data that follows it)
Chunk(s, st, j) ==
    LET e == EndOf(s, st, j)
        stop == {m \in (e + 1)..Len(s) : s[m].k # "text"}
        last == IF stop = {} THEN Len(s) ELSE Min(stop) - 1
    IN SubSeq(s, j, last)

NotReordered(s) ==
    [sxml |-> s, was_reordered |-> FALSE, old_order |-> <<>>, new_order |-> <<>>]

\* first position of x in sequence q, 0 when absent
IndexOf(q, x) ==
    LET hits == {i \in 1..Len(q) : q[i] = x}
    IN IF hits = {} THEN 0 ELSE Min(hits)

InSeq(q, x) == \E i \in 1..Len(q) : q[i] = x

\* the keys of sxml_col_map in insertion order (first occurrence of a name)
MapKeys(order) ==
    SelectSeq([i \in 1..Len(order) |-> [n |-> order[i], i |-> i]],
              LAMBDA e : IndexOf(order, e.n) = e.i)

\* Rebuild without its second loop: the metadata-only columns are not appended
RebuildDroppingRest(s, st, c, its, order, ddl_ordered_cols) ==
    LET item(n) == its[Max({i \in 1..Len(order) : order[i] = n})]
        inDdl == SelectSeq(ddl_ordered_cols, LAMBDA n : InSeq(order, n))
        first == {m \in (c + 1)..Len(s) : s[m].k # "text"}
    IN IF IsEmptyTag(s[c]) THEN s
       ELSE SubSeq(s, 1, Min(first) - 1)
            \o Flatten([i \in 1..Len(inDdl) |-> Chunk(s, st, item(inDdl[i]))])
            \o SubSeq(s, EndOf(s, st, c), Len(s))

\* Rebuild with its loops exchanged: the metadata-only columns come first
RebuildRestFirst(s, st, c, its, order, ddl_ordered_cols) ==
    LET item(n) == its[Max({i \in 1..Len(order) : order[i] = n})]
        keys == MapKeys(order)
        inDdl == SelectSeq(ddl_ordered_cols, LAMBDA n : InSeq(order, n))
        rest == SelectSeq(keys, LAMBDA e : ~InSeq(ddl_ordered_cols, e.n))
        first == {m \in (c + 1)..Len(s) : s[m].k # "text"}
    IN IF IsEmptyTag(s[c]) THEN s
       ELSE SubSeq(s, 1, Min(first) - 1)
            \o Flatten([i \in 1..Len(rest) |-> Chunk(s, st, item(rest[i].n))])
            \o Flatten([i \in 1..Len(inDdl) |-> Chunk(s, st, item(inDdl[i]))])
            \o SubSeq(s, EndOf(s, st, c), Len(s))

\* step 4 of the function: the children of the column list are removed and
\* the mapped items appended, DDL-ordered ones first
Rebuild(s, st, c, its, order, ddl_ordered_cols) ==
    LET item(n) == its[Max({i \in 1..Len(order) : order[i] = n})]
        keys == MapKeys(order)
        inDdl == SelectSeq(ddl_ordered_cols, LAMBDA n : InSeq(order, n))
        rest == SelectSeq(keys, LAMBDA e : ~InSeq(ddl_ordered_cols, e.n))
        first == {m \in (c + 1)..Len(s) : s[m].k # "text"}
    IN IF IsEmptyTag(s[c]) THEN s
       ELSE SubSeq(s, 1, Min(first) - 1)
            \o Flatten([i \in 1..Len(inDdl) |-> Chunk(s, st, item(inDdl[i]))])
            \o Flatten([i \in 1..Len(rest) |-> Chunk(s, st, item(rest[i].n))])
            \o SubSeq(s, EndOf(s, st, c), Len(s))

\* the function without the comparison of step 3: the list is always rebuilt
reorder_without_order_check(ddl, s) ==
    LET ddl_ordered_cols == DdlOrderedCols(ddl)
        st == Stacks(s)
        c == MainColList(s, st)
        withName == SelectSeq(Items(s, st, c), LAMBDA j : Find(s, st, j, "NAME") # 0)
        attributeError == \E i \in 1..Len(withName) :
                              Text(s, Find(s, st, withName[i], "NAME")) = None
        current_sxml_order ==
            [i \in 1..Len(withName) |-> ItemName(s, st, withName[i])]
    IN IF ~ddl.create \/ ddl_ordered_cols = <<>> THEN NotReordered(s)
       ELSE IF ~Parses(s) THEN NotReordered(s)
       ELSE IF c = 0 THEN NotReordered(s)
       ELSE IF attributeError THEN NotReordered(s)
       ELSE [sxml |-> <<Decl, T(NL)>>
                        \o Serialize(Rebuild(s, st, c, withName, current_sxml_order,
                                             ddl_ordered_cols)),
             was_reordered |-> TRUE,
             old_order |-> current_sxml_order,
             new_order |-> ddl_ordered_cols]

reorder_sxml_columns_to_match_ddl(ddl, s) ==
    LET ddl_ordered_cols == DdlOrderedCols(ddl)
        st == Stacks(s)
        c == MainColList(s, st)
        withName == SelectSeq(Items(s, st, c), LAMBDA j : Find(s, st, j, "NAME") # 0)
        \* .text.strip() on a NAME without text raises AttributeError
        attributeError == \E i \in 1..Len(withName) :
                              Text(s, Find(s, st, withName[i], "NAME")) = None
        current_sxml_order ==
            [i \in 1..Len(withName) |-> ItemName(s, st, withName[i])]
    IN IF ~ddl.create \/ ddl_ordered_cols = <<>> THEN NotReordered(s)
       ELSE IF ~Parses(s) THEN NotReordered(s)
       ELSE IF c = 0 THEN NotReordered(s)
       ELSE IF attributeError THEN NotReordered(s)
       ELSE IF ddl_ordered_cols = current_sxml_order THEN NotReordered(s)
       ELSE [sxml |-> <<Decl, T(NL)>>
                        \o Serialize(Rebuild(s, st, c, withName, current_sxml_order,
                                             ddl_ordered_cols)),
             was_reordered |-> TRUE,
             old_order |-> current_sxml_order,
             new_order |-> ddl_ordered_cols]

----------------------------------------------------------------------------
\* are_sxml_semantically_equal

\* the nearest token left (dir = -1) or right (dir = 1) of position i that is
\* not whitespace text; 0 when there is none
Nearest(d, i, dir) ==
    LET hits == {j \in 1..Len(d) : (j - i) * dir > 0 /\ ~IsWs(d[j])}
    IN IF hits = {} THEN 0 ELSE IF dir = 1 THEN Min(hits) ELSE Max(hits)

\* re.sub(r'<\?xml.*?\?>', '', s).strip(), then re.sub(r'>\s+<', '><', ...):
\* the declarations go, whitespace at either end goes, and whitespace goes
\* where the characters around it are '>' and '<'
Normalized(s) ==
    LET d == SelectSeq(s, LAMBDA tok : tok.k # "decl")
        between(i) ==
            /\ Nearest(d, i, -1) # 0 /\ d[Nearest(d, i, -1)].k # "text"
            /\ Nearest(d, i, 1) # 0 /\ d[Nearest(d, i, 1)].k # "text"
        inner(i) == Nearest(d, i, -1) # 0 /\ Nearest(d, i, 1) # 0
        keep(i) == IsWs(d[i]) => (inner(i) /\ ~between(i))
        kept == SelectSeq([i \in 1..Len(d) |-> [tok |-> d[i], keep |-> keep(i)]],
                          LAMBDA e : e.keep)
    IN [i \in 1..Len(kept) |-> kept[i].tok]

\* the comparison of the strings as they are
are_sxml_equal_verbatim(sxml_str1, sxml_str2) == sxml_str1 = sxml_str2

are_sxml_semantically_equal(sxml_str1, sxml_str2) ==
    Normalized(sxml_str1) = Normalized(sxml_str2)

----------------------------------------------------------------------------
\* get_git_diff

\* range(5)
GitAttempts == 5

EmptyDiff == [other |-> FALSE, snapshot |-> FALSE, warn_old |-> FALSE, warn_new |-> FALSE]

\* subprocess.run(['git', '-C', dir, 'diff', '--unified=0', repo, '--', path])
\* for file content f where the branch holds b: outside a repository the
\* command fails; a path the branch and the index do not hold gives no output
RunGitDiff(b, f) ==
    LET changed == b.sxml # f.sxml \/ b.eol # f.eol
    IN CASE b.repo = "none" -> [failed |-> TRUE, stdout |-> EmptyDiff]
         [] b.repo = "untracked" -> [failed |-> FALSE, stdout |-> EmptyDiff]
         [] OTHER ->
              [failed |-> FALSE,
               stdout |-> [other |-> ~b.ddl_same,
                           snapshot |-> changed,
                           warn_old |-> changed /\ ~b.eol,
                           warn_new |-> changed /\ ~f.eol]]

\* '\ No newline at end of file' in current_diff, with '+-- sqlcl_snapshot'
NewlineWarning(d) == (d.warn_old \/ d.warn_new) /\ d.snapshot

\* lines 108-117
Report(applied_fixes, final_diff_output) ==
    applied_fixes
    \o <<IF final_diff_output = EmptyDiff THEN "Git diff: Files are the same."
         ELSE "--- Final Diff ---">>

NoGit == [calls |-> 0, applied_fixes |-> <<>>, final_diff_output |-> EmptyDiff,
          report |-> <<>>]

NoLog == [written |-> FALSE, fixes |-> <<>>, git_diff_output |-> <<>>]

----------------------------------------------------------------------------
\* process_single_file, one action per step

MaxPasses == 2

Fix(type, detail, cols) ==
    [type |-> type, detail |-> detail, cols |-> cols,
     old_order |-> <<>>, new_order |-> <<>>]

NoPrev == [ran |-> FALSE, fatal |-> FALSE, residual |-> FALSE, sxml |-> NoDoc]

\* the locals of process_single_file before its first statement
Locals ==
    /\ original_sxml = NoDoc
    /\ sxml_to_process = NoDoc
    /\ file_was_modified = FALSE
    /\ fixes_applied_for_log = <<>>
    /\ messages = <<>>
    /\ initial = NoDiff
    /\ final = NoDiff
    /\ pre_reorder = NoDoc
    /\ reorder_result = NotReordered(NoDoc)
    /\ writes = 0
    /\ git = NoGit
    /\ is_diff_clean = FALSE
    /\ log = NoLog

\* lines 464-493: locate the marker line, decode its JSON, read "sxml"
ReadSnapshot ==
    /\ pc = "read"
    /\ UNCHANGED diff_vars
    /\ file_was_modified' = FALSE
    /\ fixes_applied_for_log' = <<>>
    /\ IF file.marker = "ok" /\ file.sxml # NoDoc
       THEN /\ original_sxml' = file.sxml
            /\ sxml_to_process' = file.sxml
            /\ messages' = messages
            /\ pc' = "parse"
       ELSE /\ original_sxml' = NoDoc
            /\ sxml_to_process' = NoDoc
            /\ messages' =
                 CASE file.marker = "nomarker" -> messages
                   [] file.marker = "empty" ->
                        Append(messages, "WARNING: Snapshot line is empty.")
                   [] file.marker = "badjson" ->
                        Append(messages, "ERROR: Failed to parse JSON.")
                   [] file.marker = "notobject" ->
                        Append(messages, "ERROR: An unexpected error occurred")
                   [] OTHER ->
                        Append(messages, "WARNING: JSON data is missing the 'sxml' key.")
            /\ pc' = "done"
    /\ UNCHANGED <<file, reset_start_with_flag, pass, initial, final, pre_reorder,
                   reorder_result, writes, prev>>

\* the step without "sxml_to_process = None" on a failed repair: the later
\* steps run on the unparseable string
ParseOrRepairKeepingDocument ==
    /\ pc = "parse"
    /\ UNCHANGED diff_vars
    /\ IF Parses(sxml_to_process)
       THEN /\ pc' = "compare"
            /\ UNCHANGED <<sxml_to_process, messages, fixes_applied_for_log,
                           file_was_modified>>
       ELSE LET r == fix_identity_column(sxml_to_process)
            IN IF r.sxml # NoDoc
               THEN /\ sxml_to_process' = r.sxml
                    /\ messages' = Append(messages, "SUCCESS: Added missing tag")
                    /\ fixes_applied_for_log' =
                         Append(fixes_applied_for_log,
                                Fix("repair", "Fixed missing IDENTITY_COLUMN tag.", <<>>))
                    /\ file_was_modified' = TRUE
                    /\ pc' = "compare"
               ELSE /\ messages' = Append(messages, "ERROR: Unfixable SXML parse error")
                    /\ UNCHANGED <<sxml_to_process, fixes_applied_for_log,
                                   file_was_modified>>
                    /\ pc' = "compare"
    /\ UNCHANGED <<file, reset_start_with_flag, pass, original_sxml, initial, final,
                   pre_reorder, reorder_result, writes, prev>>

\* lines 496-507: parse, and repair the one known defect when parsing fails
ParseOrRepair ==
    /\ pc = "parse"
    /\ UNCHANGED diff_vars
    /\ IF Parses(sxml_to_process)
       THEN /\ pc' = "compare"
            /\ UNCHANGED <<sxml_to_process, messages, fixes_applied_for_log,
                           file_was_modified>>
       ELSE LET r == fix_identity_column(sxml_to_process)
            IN IF r.sxml # NoDoc
               THEN /\ sxml_to_process' = r.sxml
                    /\ messages' = Append(messages, "SUCCESS: Added missing tag")
                    /\ fixes_applied_for_log' =
                         Append(fixes_applied_for_log,
                                Fix("repair", "Fixed missing IDENTITY_COLUMN tag.", <<>>))
                    /\ file_was_modified' = TRUE
                    /\ pc' = "compare"
               ELSE /\ sxml_to_process' = NoDoc
                    /\ messages' =
                         Append(messages,
                                IF r.message # None
                                THEN "ERROR: SXML still invalid after IDENTITY_COLUMN fix."
                                ELSE "ERROR: Unfixable SXML parse error")
                    /\ UNCHANGED <<fixes_applied_for_log, file_was_modified>>
                    /\ pc' = "done"
    /\ UNCHANGED <<file, reset_start_with_flag, pass, original_sxml, initial, final,
                   pre_reorder, reorder_result, writes, prev>>

\* line 513
InitialCompare ==
    /\ pc = "compare"
    /\ UNCHANGED diff_vars
    /\ initial' = compare_ddl_and_sxml_columns(file.ddl, sxml_to_process)
    /\ pc' = "synth"
    /\ UNCHANGED <<file, reset_start_with_flag, pass, original_sxml, sxml_to_process,
                   file_was_modified, fixes_applied_for_log, messages, final,
                   pre_reorder, reorder_result, writes, prev>>

\* the orders in which Python may iterate over a set of strings
Orders(S) == {q \in [1..Cardinality(S) -> S] : \A i, j \in DOMAIN q : i # j => q[i] # q[j]}

\* lines 515-520
SynthesizeMissing ==
    /\ pc = "synth"
    /\ UNCHANGED diff_vars
    /\ IF initial.in_ddl # {}
       THEN \E order \in Orders(initial.in_ddl) :
              /\ sxml_to_process' =
                   add_missing_columns_to_sxml(order, file.ddl, sxml_to_process)
              /\ messages' = Append(messages, "SUCCESS: Added missing columns to SXML")
              /\ fixes_applied_for_log' =
                   Append(fixes_applied_for_log,
                          Fix("add", "Added missing columns", SetToSeqS(initial.in_ddl)))
              /\ file_was_modified' = TRUE
       ELSE UNCHANGED <<sxml_to_process, messages, fixes_applied_for_log,
                        file_was_modified>>
    /\ pc' = "notnull"
    /\ UNCHANGED <<file, reset_start_with_flag, pass, original_sxml, initial, final,
                   pre_reorder, reorder_result, writes, prev>>

id_not_null_mismatch(mismatches) ==
    \E m \in mismatches : m.column = "ID" /\ "not_null" \in m.details

\* lines 522-529
IdentityNotNullFixup ==
    /\ pc = "notnull"
    /\ UNCHANGED diff_vars
    /\ LET r == fix_identity_not_null(sxml_to_process)
       IN IF id_not_null_mismatch(initial.mismatches) /\ r.sxml # NoDoc
          THEN /\ sxml_to_process' = r.sxml
               /\ messages' = Append(messages, "SUCCESS: Added missing NOT NULL tag")
               /\ fixes_applied_for_log' =
                    Append(fixes_applied_for_log,
                           Fix("notnull", "Added NOT NULL to ID column.", <<>>))
               /\ file_was_modified' = TRUE
          ELSE UNCHANGED <<sxml_to_process, messages, fixes_applied_for_log,
                           file_was_modified>>
    /\ pc' = "reset"
    /\ UNCHANGED <<file, reset_start_with_flag, pass, original_sxml, initial, final,
                   pre_reorder, reorder_result, writes, prev>>

\* lines 531-537
ResetStartWith ==
    /\ pc = "reset"
    /\ UNCHANGED diff_vars
    /\ LET r == reset_start_with_value(sxml_to_process)
       IN IF reset_start_with_flag /\ r.was_reset
          THEN /\ sxml_to_process' = r.sxml
               /\ messages' = Append(messages, "SUCCESS: Reset START_WITH value")
               /\ fixes_applied_for_log' =
                    Append(fixes_applied_for_log, Fix("reset", r.original_value, <<>>))
               /\ file_was_modified' = TRUE
          ELSE UNCHANGED <<sxml_to_process, messages, fixes_applied_for_log,
                           file_was_modified>>
    /\ pc' = "reorder"
    /\ UNCHANGED <<file, reset_start_with_flag, pass, original_sxml, initial, final,
                   pre_reorder, reorder_result, writes, prev>>

\* the step that, having reordered, goes through the fix steps once more
ReorderThenFixAgain ==
    /\ pc = "reorder"
    /\ UNCHANGED diff_vars
    /\ LET r == reorder_sxml_columns_to_match_ddl(file.ddl, sxml_to_process)
       IN /\ pre_reorder' = sxml_to_process
          /\ reorder_result' = r
          /\ sxml_to_process' = r.sxml
          /\ IF r.was_reordered
             THEN /\ messages' = Append(messages, "SUCCESS: Corrected SXML column order")
                  /\ fixes_applied_for_log' =
                       Append(fixes_applied_for_log,
                              [type |-> "reorder",
                               detail |-> "Corrected SXML column order to match DDL.",
                               cols |-> <<>>,
                               old_order |-> r.old_order,
                               new_order |-> r.new_order])
                  /\ file_was_modified' = TRUE
                  /\ pc' = IF \E i \in 1..Len(fixes_applied_for_log) :
                                  fixes_applied_for_log[i].type = "reorder"
                           THEN "final" ELSE "synth"
             ELSE /\ UNCHANGED <<messages, fixes_applied_for_log, file_was_modified>>
                  /\ pc' = "final"
    /\ UNCHANGED <<file, reset_start_with_flag, pass, original_sxml, initial, final,
                   writes, prev>>

\* lines 539-549
Reorder ==
    /\ pc = "reorder"
    /\ UNCHANGED diff_vars
    /\ LET r == reorder_sxml_columns_to_match_ddl(file.ddl, sxml_to_process)
       IN /\ pre_reorder' = sxml_to_process
          /\ reorder_result' = r
          /\ sxml_to_process' = r.sxml
          /\ IF r.was_reordered
             THEN /\ messages' = Append(messages, "SUCCESS: Corrected SXML column order")
                  /\ fixes_applied_for_log' =
                       Append(fixes_applied_for_log,
                              [type |-> "reorder",
                               detail |-> "Corrected SXML column order to match DDL.",
                               cols |-> <<>>,
                               old_order |-> r.old_order,
                               new_order |-> r.new_order])
                  /\ file_was_modified' = TRUE
             ELSE UNCHANGED <<messages, fixes_applied_for_log, file_was_modified>>
    /\ pc' = "final"
    /\ UNCHANGED <<file, reset_start_with_flag, pass, original_sxml, initial, final,
                   writes, prev>>

\* lines 552-563: the residual diff, and the write of the corrected line
FinalCompareAndSave ==
    /\ pc = "final"
    /\ UNCHANGED diff_vars
    /\ final' = compare_ddl_and_sxml_columns(file.ddl, sxml_to_process)
    /\ IF file_was_modified
       THEN /\ file' = [file EXCEPT !.sxml = sxml_to_process, !.eol = TRUE]
            /\ writes' = writes + 1
       ELSE UNCHANGED <<file, writes>>
    /\ pc' = "git"
    /\ UNCHANGED <<reset_start_with_flag, pass, original_sxml, sxml_to_process,
                   file_was_modified, fixes_applied_for_log, messages, initial,
                   pre_reorder, reorder_result, prev>>

\* line 567, lines 40-117: one pass of the loop of get_git_diff; when the
\* loop ends the report is assembled and returned
GitDiffAttempt ==
    /\ pc = "git"
    /\ LET result == RunGitDiff(baseline, file)
           current_diff == result.stdout
           calls == git.calls + 1
           newline_fix == Append(git.applied_fixes,
                                 "Git Fix Applied: Corrected trailing newline issue.")
           sync_fix == Append(git.applied_fixes,
                              "Git Fix Applied: Synchronized SXML formatting with repo.")
           \* continue: the next pass of the loop, if there is one
           again(fixes) ==
               /\ git' = [calls |-> calls, applied_fixes |-> fixes,
                          final_diff_output |-> current_diff,
                          report |-> IF calls < GitAttempts THEN <<>>
                                     ELSE Report(fixes, current_diff)]
               /\ pc' = IF calls < GitAttempts THEN "git" ELSE "log"
           \* break
           stop ==
               /\ git' = [calls |-> calls, applied_fixes |-> git.applied_fixes,
                          final_diff_output |-> current_diff,
                          report |-> Report(git.applied_fixes, current_diff)]
               /\ pc' = "log"
               /\ file' = file
       IN IF result.failed
          THEN /\ git' = [git EXCEPT !.calls = calls,
                                     !.report = <<"Git command failed.">>]
               /\ pc' = "log"
               /\ file' = file
          ELSE IF current_diff = EmptyDiff THEN stop
          ELSE IF NewlineWarning(current_diff)
          THEN \* rstrip() when the warning precedes the added line, else '\n'
               /\ file' = [file EXCEPT !.eol = ~current_diff.warn_old]
               /\ again(newline_fix)
          ELSE IF current_diff.snapshot
                  /\ are_sxml_semantically_equal(baseline.sxml, file.sxml)
          THEN \* the marker line is replaced by the branch's line
               /\ file' = [file EXCEPT !.sxml = baseline.sxml, !.eol = TRUE]
               /\ again(sync_fix)
          ELSE stop
    /\ UNCHANGED <<reset_start_with_flag, pass, original_sxml, sxml_to_process,
                   file_was_modified, fixes_applied_for_log, messages, initial, final,
                   pre_reorder, reorder_result, writes, prev, baseline, is_diff_clean,
                   log, file_before>>

\* final_comp_messages
CompMessages(d) ==
    (IF d.in_ddl # {} THEN <<"Discrepancy: Columns in DDL but not in SXML">> ELSE <<>>)
    \o (IF d.in_sxml # {} THEN <<"Discrepancy: Columns in SXML but not in DDL">> ELSE <<>>)
    \o [i \in 1..Cardinality(d.mismatches) |-> "Attribute Mismatch on column"]

\* line 571
LogNeeded(modified, discrepancy, clean) == modified \/ discrepancy \/ ~clean

\* lines 568-581: is the diff clean, and the log file
GenerateLog ==
    /\ pc = "log"
    /\ is_diff_clean' = (git.report = <<"Git diff: Files are the same.">>)
    /\ IF LogNeeded(file_was_modified, has_discrepancy(final), is_diff_clean')
       THEN /\ log' = [written |-> TRUE, fixes |-> fixes_applied_for_log,
                       git_diff_output |-> git.report]
            /\ messages' =
                 (IF has_discrepancy(final) THEN messages \o CompMessages(final)
                  ELSE messages)
                 \o <<"INFO: Discrepancy details saved">>
       ELSE UNCHANGED <<log, messages>>
    /\ pc' = "done"
    /\ UNCHANGED <<file, reset_start_with_flag, pass, original_sxml, sxml_to_process,
                   file_was_modified, fixes_applied_for_log, initial, final,
                   pre_reorder, reorder_result, writes, prev, baseline, git, file_before>>

\* the orchestrator is run again over the same folder
NextPass ==
    /\ pc = "done"
    /\ pass < MaxPasses
    /\ pass' = pass + 1
    /\ prev' = [ran |-> TRUE,
                fatal |-> sxml_to_process = NoDoc,
                residual |-> has_discrepancy(final),
                sxml |-> sxml_to_process]
    /\ pc' = "read"
    /\ original_sxml' = NoDoc
    /\ sxml_to_process' = NoDoc
    /\ file_was_modified' = FALSE
    /\ fixes_applied_for_log' = <<>>
    /\ messages' = <<>>
    /\ initial' = NoDiff
    /\ final' = NoDiff
    /\ pre_reorder' = NoDoc
    /\ reorder_result' = NotReordered(NoDoc)
    /\ writes' = 0
    /\ git' = NoGit
    /\ is_diff_clean' = FALSE
    /\ log' = NoLog
    /\ file_before' = file
    /\ UNCHANGED <<file, reset_start_with_flag, baseline>>

Next ==
    \/ ReadSnapshot
    \/ ParseOrRepair
    \/ InitialCompare
    \/ SynthesizeMissing
    \/ IdentityNotNullFixup
    \/ ResetStartWith
    \/ Reorder
    \/ FinalCompareAndSave
    \/ GitDiffAttempt
    \/ GenerateLog
    \/ NextPass

----------------------------------------------------------------------------
\* The inputs: files whose DDL and metadata are drawn from bounded sets

MaxCols == 2

\* one column item of the metadata, from a description
\*   nn:    "none" | "empty" (<NOT_NULL/>) | "pair" (<NOT_NULL></NOT_NULL>)
\*   ident: "none" | a start value (a complete generator block)
\*          | "cut" (the block ends after its SCHEMA: the known defect)
\*          | "bare" (only the start tag) | "unclosed" (only the end tag missing)
Opt(tag, v) == IF v = None THEN <<>> ELSE Elem(tag, v)

Generator(ident) ==
    CASE ident = "none" -> <<>>
      [] ident = "bare" -> <<O("IDENTITY_COLUMN")>>
      [] ident = "cut" -> <<O("IDENTITY_COLUMN")>> \o Elem("SCHEMA", "HR")
      [] ident = "unclosed" ->
           <<O("IDENTITY_COLUMN")>> \o Elem("SCHEMA", "HR")
           \o Elem("GENERATION", "DEFAULT") \o Elem("START_WITH", "500")
      [] OTHER ->
           <<O("IDENTITY_COLUMN")>> \o Elem("SCHEMA", "HR")
           \o Elem("GENERATION", "DEFAULT") \o Elem("START_WITH", ident)
           \o <<C("IDENTITY_COLUMN")>>

Marker(nn) ==
    CASE nn = "empty" -> <<E("NOT_NULL")>>
      [] nn = "pair" -> <<O("NOT_NULL"), C("NOT_NULL")>>
      [] OTHER -> <<>>

Item(name, type, length, precision, scale, nn, ident) ==
    [name |-> name, type |-> type, length |-> length, precision |-> precision,
     scale |-> scale, nn |-> nn, ident |-> ident]

MkItem(it) ==
    <<O("COL_LIST_ITEM")>> \o Elem("NAME", it.name) \o Elem("DATATYPE", it.type)
    \o Opt("LENGTH", it.length) \o Opt("PRECISION", it.precision)
    \o Opt("SCALE", it.scale) \o Generator(it.ident) \o Marker(it.nn)
    \o <<C("COL_LIST_ITEM")>>

\* a metadata document: decl (with a declaration), head (the table's SCHEMA
\* and NAME), list ("open" | "empty" for <COL_LIST/> | "absent"), the items,
\* and stray (an unclosed element of another name at the end)
MkDoc(decl, head, list, items, stray) ==
    (IF decl THEN <<Decl>> ELSE <<>>)
    \o <<O("TABLE")>>
    \o (IF head THEN Elem("SCHEMA", "HR") \o Elem("NAME", "T") ELSE <<>>)
    \o <<O("RELATIONAL_TABLE")>>
    \o (CASE list = "open" ->
               <<O("COL_LIST")>>
               \o Flatten([i \in 1..Len(items) |-> MkItem(items[i])])
               \o <<C("COL_LIST")>>
          [] list = "empty" -> <<E("COL_LIST")>>
          [] OTHER -> <<>>)
    \o (IF stray THEN <<O("PHYSICAL_PROPERTIES")>> ELSE <<>>)
    \o <<C("RELATIONAL_TABLE"), C("TABLE")>>

Ddl(lines) == [create |-> TRUE, lines |-> lines]
NoCreate == [create |-> FALSE, lines |-> <<>>]

\* sequences of at most n distinct elements of S
Arrangements(S, n) ==
    UNION {{q \in [1..m -> S] : \A i, j \in 1..m : i # j => q[i] # q[j]} :
             m \in 0..n}

File(ddl, marker, sxml) == [ddl |-> ddl, marker |-> marker, sxml |-> sxml, eol |-> TRUE]

\* the repository holds the file as it is
Committed(f) == [repo |-> "tracked", ddl_same |-> TRUE, sxml |-> f.sxml, eol |-> f.eol]

Names == {"ID", "A", "B"}

\* the declaration and the matching item of each name, and an item whose
\* attributes differ from the declaration
StdLine(n) ==
    CASE n = "ID" -> Col("ID", "NUMBER", <<>>, TRUE)
      [] n = "A" -> Col("A", "VARCHAR2", <<"20">>, FALSE)
      [] OTHER -> Col(n, "DATE", <<>>, FALSE)

StdItem(n) ==
    CASE n = "ID" -> Item("ID", "NUMBER", None, None, None, "empty", "none")
      [] n = "A" -> Item("A", "VARCHAR2", "20", None, None, "none", "none")
      [] OTHER -> Item(n, "DATE", None, None, None, "none", "none")

AltItem(n) ==
    CASE n = "ID" -> Item("ID", "NUMBER", None, "10", "0", "none", "none")
      [] n = "A" -> Item("A", "VARCHAR2", "10", None, None, "none", "none")
      [] OTHER -> Item(n, "TIMESTAMP_WITH_LOCAL_TIMEZONE", None, None, "6", "pair", "none")

\* the declarations of the names in q, followed by a constraint line
StdDdl(q) == Ddl([i \in 1..Len(q) |-> StdLine(q[i])] \o <<NoLine>>)

Range(q) == {q[i] : i \in 1..Len(q)}

\* the definition shapes: keyword and parenthesised arguments
Shapes ==
    {<<"VARCHAR2", <<"20">>>>, <<"NUMBER", <<"10", "2">>>>, <<"NUMBER", <<"10">>>>,
     <<"NUMBER", <<>>>>, <<"DATE", <<>>>>, <<"CLOB", <<>>>>, <<"BLOB", <<>>>>,
     <<"TIMESTAMP", <<"6">>>>, <<"TIMESTAMP", <<>>>>, <<"FLOAT", <<>>>>}

StartValues == {"1", "300", "500"}

Input(ddl, marker, sxml, flag) ==
    [file |-> File(ddl, marker, sxml), flag |-> flag,
     baseline |-> Committed(File(ddl, marker, sxml))]

\* columns in any order against declarations in any order, with and without
\* attribute differences
OrderInputs ==
    {Input(ddl, "ok",
           MkDoc(FALSE, TRUE, "open",
                 [i \in 1..Len(q) |-> IF q[i] \in alt THEN AltItem(q[i]) ELSE StdItem(q[i])],
                 FALSE),
           TRUE) :
        ddl \in {StdDdl(d) : d \in Arrangements(Names, MaxCols)} \cup {NoCreate},
        q \in Arrangements(Names, MaxCols),
        alt \in SUBSET Names}

\* a declared column of every shape that the metadata lacks
ShapeInputs ==
    {Input(Ddl(pre \o <<Col(n, sh[1], sh[2], nn)>>), "ok", doc, TRUE) :
        pre \in {<<>>, <<StdLine("ID")>>},
        n \in {"A", "b"},
        sh \in Shapes,
        nn \in BOOLEAN,
        doc \in {MkDoc(TRUE, TRUE, "open", <<>>, FALSE),
                 MkDoc(TRUE, TRUE, "open", <<StdItem("ID")>>, FALSE),
                 MkDoc(TRUE, TRUE, "empty", <<>>, FALSE),
                 MkDoc(TRUE, TRUE, "absent", <<>>, FALSE)}}

\* identity generators with any start values
GenItem(n, nn, ident) == Item(n, "NUMBER", None, None, None, nn, ident)

GenDdl(q) == Ddl([i \in 1..Len(q) |-> Col(q[i], "NUMBER", <<>>, q[i] = "ID")])

GeneratorInputs ==
    {Input(GenDdl(d), "ok",
           MkDoc(FALSE, TRUE, "open",
                 [i \in 1..Len(q) |->
                    GenItem(q[i], IF q[i] = "ID" THEN nn ELSE "none", sv[q[i]])],
                 FALSE),
           flag) :
        d \in {<<"ID", "A">>, <<"A", "ID">>, <<"ID">>, <<"A">>},
        q \in Arrangements({"ID", "A"}, 2) \ {<<>>},
        sv \in [{"ID", "A"} -> StartValues],
        nn \in {"none", "empty", "pair"},
        flag \in BOOLEAN}

\* an ID column declared with and without NOT NULL against an ID item with and
\* without a generator, in every spelling of the marker, alone or after
\* another column
IdentityInputs ==
    {Input(Ddl(pre \o <<Col("ID", "NUMBER", <<>>, declared)>>), "ok",
           MkDoc(FALSE, TRUE, "open",
                 [i \in 1..Len(pre) |-> StdItem(pre[i].name)]
                 \o <<Item(name, "NUMBER", None, precision, None, nn, ident)>>,
                 FALSE),
           TRUE) :
        pre \in {<<>>, <<StdLine("A")>>},
        declared \in BOOLEAN,
        name \in {"ID", "id"},
        precision \in {None, "500"},
        nn \in {"none", "empty", "pair"},
        ident \in {"none", "1", "500"}}

\* a metadata string with a declaration, and a line break and an indent
\* between every two tags
Spaced(s) ==
    <<Decl, T(NL)>>
    \o Flatten([i \in 1..Len(s) |->
                   IF i < Len(s) /\ s[i].k # "text" /\ s[i + 1].k # "text"
                   THEN <<s[i], T(NL6)>> ELSE <<s[i]>>])

\* working copies against what the branch holds: the same metadata, the same
\* in another layout, in another column order, or with another column; with
\* and without the final line break; with other lines changed; outside a
\* repository, or not yet added to it
GitDocs ==
    {MkDoc(FALSE, TRUE, "open", <<StdItem("A"), StdItem("B")>>, FALSE),
     MkDoc(FALSE, TRUE, "open", <<StdItem("B"), StdItem("A")>>, FALSE),
     Spaced(MkDoc(FALSE, TRUE, "open", <<StdItem("A"), StdItem("B")>>, FALSE))}

GitInputs ==
    {[Input(StdDdl(<<"A", "B">>), "ok", doc, TRUE)
        EXCEPT !.file.eol = eol,
               !.baseline = [repo |-> b[1], ddl_same |-> b[2], sxml |-> held,
                             eol |-> held_eol]] :
        doc \in GitDocs,
        held \in GitDocs
                 \cup {MkDoc(FALSE, TRUE, "open", <<StdItem("A"), StdItem("B"), StdItem("ID")>>,
                             FALSE)},
        eol \in BOOLEAN,
        held_eol \in BOOLEAN,
        b \in {<<"tracked", TRUE>>, <<"tracked", FALSE>>, <<"untracked", TRUE>>,
               <<"none", TRUE>>}}

\* metadata that does not parse
BrokenInputs ==
    {Input(StdDdl(<<"ID", "A">>), "ok",
           MkDoc(FALSE, head, "open", its, stray),
           TRUE) :
        head \in BOOLEAN,
        stray \in BOOLEAN,
        its \in UNION {{<<GenItem("ID", "none", b)>>,
                        <<GenItem("A", "none", o), GenItem("ID", "none", b)>>,
                        <<GenItem("ID", "none", b), GenItem("A", "none", o)>>} :
                          b \in {"cut", "bare", "unclosed"}, o \in {"none", "1"}}}
    \cup {Input(StdDdl(<<"ID">>), "ok",
                MkDoc(FALSE, TRUE, "open", <<StdItem("ID")>>, TRUE), TRUE)}

\* marker lines whose JSON gives no metadata
FatalInputs ==
    {Input(StdDdl(<<"ID">>), m, NoDoc, TRUE) :
        m \in {"nomarker", "empty", "badjson", "notobject", "nosxml", "ok"}}

Inputs == OrderInputs \cup ShapeInputs \cup GeneratorInputs \cup IdentityInputs
          \cup GitInputs \cup BrokenInputs \cup FatalInputs

Init ==
    /\ \E inp \in Inputs :
          /\ file = inp.file
          /\ file_before = inp.file
          /\ baseline = inp.baseline
          /\ reset_start_with_flag = inp.flag
    /\ pc = "read"
    /\ pass = 1
    /\ prev = NoPrev
    /\ Locals

Spec == Init /\ [][Next]_vars

----------------------------------------------------------------------------
\* Vocabulary of the properties

\* the names of the column items of a parseable metadata string, in document
\* order
ColumnOrder(s) ==
    LET st == Stacks(s)
        its == NamedItems(s, st)
    IN [i \in 1..Len(its) |-> ItemName(s, st, its[i])]

\* the column items of a parseable metadata string as written by ElementTree,
\* in document order
ColumnItems(s) ==
    LET st == Stacks(s)
        its == NamedItems(s, st)
    IN [i \in 1..Len(its) |-> Serialize(SubSeq(s, its[i], EndOf(s, st, its[i])))]

Filter(q, S) == SelectSeq(q, LAMBDA x : x \in S)

Recorded(type) == \E i \in 1..Len(fixes_applied_for_log) : fixes_applied_for_log[i].type = type

\* the values of all START_WITH elements of a metadata string
StartWithValues(s) ==
    {s[i + 1].t : i \in {j \in 1..(Len(s) - 2) :
                            s[j] = O("START_WITH") /\ s[j + 1].k = "text"}}

\* a pass over parseable (or repaired) metadata has run to its end
PassDone == pc = "done" /\ sxml_to_process # NoDoc

----------------------------------------------------------------------------
\* C1: idempotence of a pass. If the previous pass over the file ended with no
\* residual discrepancy, a pass over its corrected metadata (same DDL, same
\* start-value flag) applies no fix, leaves the modified flag false and again
\* reports no residual discrepancy.
C1_Idempotent ==
    (/\ PassDone
     /\ prev.ran /\ ~prev.fatal /\ ~prev.residual
     /\ original_sxml = prev.sxml)
    => /\ fixes_applied_for_log = <<>>
       /\ ~file_was_modified
       /\ ~has_discrepancy(final)

\* C1 for metadata with at most one identity generator
C1_IdempotentOneGenerator ==
    (/\ PassDone
     /\ prev.ran /\ ~prev.fatal /\ ~prev.residual
     /\ original_sxml = prev.sxml
     /\ CountTok(original_sxml, O("START_WITH")) <= 1)
    => /\ fixes_applied_for_log = <<>>
       /\ ~file_was_modified
       /\ ~has_discrepancy(final)

\* C2: no column is deleted. After a pass over parseable metadata every column
\* item of the input whose name the DDL does not declare is still an item of
\* the corrected metadata, with the attributes it had, and the residual diff
\* lists its name as metadata-only.
C2_NoColumnDeleted ==
    (PassDone /\ Parses(original_sxml))
    => LET before == SxmlCols(original_sxml)
           after == SxmlCols(sxml_to_process)
           declared == DOMAIN DdlCols(file.ddl)
       IN \A n \in DOMAIN before \ declared :
             /\ n \in DOMAIN after
             /\ after[n] = before[n]
             /\ n \in final.in_sxml
             /\ Cardinality({i \in 1..Len(ColumnOrder(sxml_to_process)) :
                               ColumnOrder(sxml_to_process)[i] = n}) = 1

C2_Witness ==
    /\ PassDone /\ Parses(original_sxml)
    /\ reorder_result.was_reordered
    /\ Recorded("add")
    /\ final.in_sxml # {}

\* C3: result of the reorder step. Whenever the step is handed parseable
\* metadata whose column-name sequence differs from the DDL's, the column list
\* it returns holds the columns common to DDL and metadata in DDL order, then
\* the metadata-only columns in their original relative order, and every
\* column item of the input occurs in it exactly once with its content.
C3_ReorderResult ==
    (/\ pc = "final"
     /\ Parses(pre_reorder)
     /\ ColumnOrder(pre_reorder) # DdlOrderedCols(file.ddl))
    => LET old == ColumnOrder(pre_reorder)
           new == ColumnOrder(sxml_to_process)
           ddl_order == DdlOrderedCols(file.ddl)
           olditems == ColumnItems(pre_reorder)
           newitems == ColumnItems(sxml_to_process)
       IN /\ Parses(sxml_to_process)
          /\ new = Filter(ddl_order, Range(old)) \o Filter(old, Range(old) \ Range(ddl_order))
          /\ Len(new) = Len(old)
          /\ \A i \in 1..Len(old) : \E j \in 1..Len(new) :
                new[j] = old[i] /\ newitems[j] = olditems[i]

C3_Witness ==
    /\ pc = "final" /\ Parses(pre_reorder)
    /\ reorder_result.was_reordered
    /\ LET old == ColumnOrder(pre_reorder)
           ddl_order == DdlOrderedCols(file.ddl)
       IN /\ Range(old) \ Range(ddl_order) # {}
          /\ Filter(old, Range(ddl_order)) # Filter(ddl_order, Range(old))

\* C4: order preservation. When the metadata's column-name sequence already
\* equals the DDL's, the reorder step returns the metadata string unchanged,
\* reports was_reordered = FALSE and records no reorder fix, whatever the
\* attribute mismatches.
C4_OrderPreserved ==
    (/\ pc = "final"
     /\ Parses(pre_reorder)
     /\ ColumnOrder(pre_reorder) = DdlOrderedCols(file.ddl))
    => /\ reorder_result.sxml = pre_reorder
       /\ sxml_to_process = pre_reorder
       /\ ~reorder_result.was_reordered
       /\ ~Recorded("reorder")

C4_Witness ==
    /\ pc = "final" /\ Parses(pre_reorder)
    /\ ColumnOrder(pre_reorder) = DdlOrderedCols(file.ddl)
    /\ Len(ColumnOrder(pre_reorder)) >= 2
    /\ initial.mismatches # {}
    /\ sxml_to_process = pre_reorder

\* the declaration of column n in the DDL (the last one of that name)
LineOf(ddl, n) ==
    LET ls == ColLines(ddl)
    IN ls[Max({i \in 1..Len(ls) : Upper(ls[i].name) = n})]

\* the shapes of declaration the attribute mapping models
ModelledShape(l) ==
    \/ l.kw = "VARCHAR2" /\ Len(l.args) = 1
    \/ l.kw = "NUMBER"
    \/ l.kw \in {"DATE", "CLOB", "BLOB"} /\ l.args = <<>>
    \/ l.kw = "TIMESTAMP" /\ Len(l.args) = 1

\* the columns the synthesis step has just inserted
Synthesized ==
    IF pc = "notnull" /\ Recorded("add") /\ Parses(sxml_to_process)
    THEN initial.in_ddl \cap DOMAIN SxmlCols(sxml_to_process)
    ELSE {}

\* C5: round trip of synthesized columns. For a declaration of every modelled
\* shape, the item add_missing_columns_to_sxml builds is re-extracted with
\* type, length, precision, scale and not_null equal to the DDL's values.
C5_RoundTrip ==
    \A n \in Synthesized :
        ModelledShape(LineOf(file.ddl, n))
        => Details(DdlCols(file.ddl)[n], SxmlCols(sxml_to_process)[n]) = {}

\* C5 without the one-argument NUMBER(p)
C5_RoundTripExceptNumberP ==
    \A n \in Synthesized :
        (/\ ModelledShape(LineOf(file.ddl, n))
         /\ ~(LineOf(file.ddl, n).kw = "NUMBER" /\ Len(LineOf(file.ddl, n).args) = 1))
        => Details(DdlCols(file.ddl)[n], SxmlCols(sxml_to_process)[n]) = {}

\* C6: synthesis is complete. After a pass over parseable metadata the
\* residual DDL-only set is empty, and an "added missing columns" fix is
\* recorded only when the items of all DDL-only columns were inserted.
C6_SynthesisComplete ==
    /\ PassDone => final.in_ddl = {}
    /\ (pc = "notnull" /\ Recorded("add"))
         => /\ file_was_modified
            /\ Parses(sxml_to_process)
            /\ initial.in_ddl \subseteq DOMAIN SxmlCols(sxml_to_process)

\* C7: generator start normalization. With the flag on, if any generator of
\* the metadata has a start value other than 1, then after the pass every
\* generator's start value is 1 and a reset fix records an original value.
C7_StartNormalized ==
    (/\ PassDone
     /\ reset_start_with_flag
     /\ StartWithValues(original_sxml) \ {"1"} # {})
    => /\ StartWithValues(sxml_to_process) \subseteq {"1"}
       /\ \E i \in 1..Len(fixes_applied_for_log) :
             /\ fixes_applied_for_log[i].type = "reset"
             /\ fixes_applied_for_log[i].detail \in StartWithValues(original_sxml) \ {"1"}

\* C7 for parseable metadata with one generator
C7_StartNormalizedOneGenerator ==
    (/\ PassDone
     /\ reset_start_with_flag
     /\ Parses(original_sxml)
     /\ CountTok(original_sxml, O("START_WITH")) = 1
     /\ StartWithValues(original_sxml) \ {"1"} # {})
    => /\ StartWithValues(sxml_to_process) \subseteq {"1"}
       /\ \E i \in 1..Len(fixes_applied_for_log) :
             /\ fixes_applied_for_log[i].type = "reset"
             /\ fixes_applied_for_log[i].detail \in StartWithValues(original_sxml) \ {"1"}

\* the cases in which the repair has nothing to return
Unrepairable(s) ==
    \/ CountTok(s, O("IDENTITY_COLUMN")) <= CountTok(s, C("IDENTITY_COLUMN"))
    \/ FindTok(s, O("SCHEMA"), 1) = 0
    \/ FindTok(s, O("NAME"), 1) = 0
    \/ FindTok(s, C("SCHEMA"), FindTok(s, O("IDENTITY_COLUMN"), 1)) = 0

\* C8: structural repair is all-or-nothing. fix_identity_column returns a
\* document only if that document parses, and no document in every other
\* case; process_single_file then applies no further step, records no fix
\* and does not write the file.
C8_RepairAllOrNothing ==
    /\ pc = "compare" => Parses(sxml_to_process)
    /\ (original_sxml # NoDoc)
         => LET r == fix_identity_column(original_sxml)
            IN /\ r.sxml # NoDoc => Parses(r.sxml)
               /\ Unrepairable(original_sxml) => r.sxml = NoDoc
    /\ (/\ pc = "done" /\ original_sxml # NoDoc /\ ~Parses(original_sxml)
        /\ fix_identity_column(original_sxml).sxml = NoDoc)
         => /\ sxml_to_process = NoDoc
            /\ fixes_applied_for_log = <<>> /\ ~file_was_modified
            /\ initial = NoDiff /\ final = NoDiff /\ pre_reorder = NoDoc
            /\ writes = 0 /\ file.sxml = original_sxml

C8_Witness ==
    /\ pc = "done" /\ original_sxml # NoDoc /\ ~Parses(original_sxml)
    /\ ~Unrepairable(original_sxml)
    /\ sxml_to_process = NoDoc
    /\ writes = 0

\* C9: repair exclusivity. When the repair succeeds its output is its input
\* with one contiguous block inserted right after the first schema closing
\* marker that follows the identity opening tag: the default generator fields
\* and the closing identity tag. Every token of the input keeps its place
\* relative to the others.
C9_RepairInsertsOneBlock ==
    (pc = "compare" /\ Recorded("repair"))
    => LET s == original_sxml
           block == <<O("GENERATION"), T("DEFAULT"), C("GENERATION"),
                      O("ON_NULL"), C("ON_NULL"),
                      O("START_WITH"), T(get_start_with_value("HR", "T")), C("START_WITH"),
                      O("INCREMENT"), T("1"), C("INCREMENT"),
                      O("MINVALUE"), T("1"), C("MINVALUE"),
                      O("MAXVALUE"), T("9999999999999999999999999999"), C("MAXVALUE"),
                      O("CACHE"), T("20"), C("CACHE"),
                      C("IDENTITY_COLUMN")>>
       IN \E p \in 1..Len(s) :
             /\ s[p] = C("SCHEMA")
             /\ \E i \in 1..(p - 1) :
                   /\ s[i] = O("IDENTITY_COLUMN")
                   /\ \A m \in 1..(i - 1) : s[m] # O("IDENTITY_COLUMN")
                   /\ \A m \in i..(p - 1) : s[m] # C("SCHEMA")
             /\ sxml_to_process = SubSeq(s, 1, p) \o block \o SubSeq(s, p + 1, Len(s))

C9_Witness ==
    /\ pc = "compare" /\ Recorded("repair")
    /\ Len(ColumnOrder(sxml_to_process)) >= 2
    /\ original_sxml[3] = T("HR")

\* the conditions that are fatal for a file
Fatal ==
    \/ file.marker \in {"badjson", "nosxml"}
    \/ file.marker = "ok" /\ file.sxml = NoDoc
    \/ /\ original_sxml # NoDoc /\ ~Parses(original_sxml)
       /\ fix_identity_column(original_sxml).sxml = NoDoc

\* C10: fatal per-file conditions never mutate the file. When the marker
\* line's JSON cannot be decoded, or lacks the sxml field, or the metadata is
\* neither parseable nor repairable, process_single_file ends without a write
\* to the file, without a fix, and with an error or warning message.
C10_FatalNoMutation ==
    (pc = "done" /\ Fatal)
    => /\ writes = 0
       /\ file.marker = "ok" => file.sxml = original_sxml
       /\ fixes_applied_for_log = <<>>
       /\ ~file_was_modified
       /\ sxml_to_process = NoDoc
       /\ Len(messages) = 1

C10_Witness ==
    /\ pc = "done" /\ file.marker = "badjson"
    /\ messages = <<"ERROR: Failed to parse JSON.">>
    /\ writes = 0

----------------------------------------------------------------------------
\* the metadata the initial comparison reads: the input, or its repair
InputDoc ==
    IF Parses(original_sxml) THEN original_sxml
    ELSE fix_identity_column(original_sxml).sxml

\* the item compare_ddl_and_sxml_columns reads for column ID; 0 when none
IdItem(s) ==
    LET st == Stacks(s)
        its == NamedItems(s, st)
        hits == {i \in 1..Len(its) : ItemName(s, st, its[i]) = "ID"}
    IN IF hits = {} THEN 0 ELSE its[Max(hits)]

\* the ID item carries an identity-generator block
HasGenerator(s) ==
    IdItem(s) # 0 /\ Find(s, Stacks(s), IdItem(s), "IDENTITY_COLUMN") # 0

\* the number of not-null markers of the ID item
NotNullMarkers(s) ==
    LET st == Stacks(s)
        ch == Children(s, st, IdItem(s))
    IN Cardinality({i \in 1..Len(ch) : s[ch[i]].t = "NOT_NULL"})

FixupDone == pc \in {"reset", "reorder", "final", "done"} /\ sxml_to_process # NoDoc

\* C11: identity NOT-NULL fixup. The fixup is applied (a marker inserted and
\* the fix recorded) exactly when the initial diff reports a NOT NULL
\* mismatch on ID and the ID item carries a generator block; once applied,
\* the ID item carries exactly one not-null marker and the residual diff
\* reports no NOT NULL mismatch on ID.
C11_IdentityNotNull ==
    /\ FixupDone =>
          (Recorded("notnull")
             <=> id_not_null_mismatch(initial.mismatches) /\ HasGenerator(InputDoc))
    /\ pc = "reset" /\ Recorded("notnull") => NotNullMarkers(sxml_to_process) = 1
    /\ PassDone /\ Recorded("notnull") =>
          /\ NotNullMarkers(sxml_to_process) = 1
          /\ ~id_not_null_mismatch(final.mismatches)

\* C11 for a DDL that declares ID NOT NULL and a metadata item spelled "ID":
\* there the fixup is applied exactly in the stated case and leaves one
\* marker and no residual NOT NULL mismatch on ID.
C11_IdentityNotNullDeclared ==
    (/\ \E i \in 1..Len(ColLines(file.ddl)) :
            ColLines(file.ddl)[i].name = "ID" /\ ColLines(file.ddl)[i].nn
     /\ InputDoc # NoDoc
     /\ IdItem(InputDoc) # 0
     /\ Text(InputDoc, Find(InputDoc, Stacks(InputDoc), IdItem(InputDoc), "NAME")) = "ID")
    => C11_IdentityNotNull

\* the attributes that are reported but never corrected
AttrFields == {"type", "length", "precision", "scale"}

\* C12: general attribute mismatches are never auto-corrected. After a pass,
\* every column of the input metadata is still there with the datatype,
\* length, precision and scale it had, and every type, length, precision or
\* scale mismatch of the initial diff is reported by the residual diff.
C12_AttributesNeverCorrected ==
    PassDone =>
      LET before == SxmlCols(InputDoc)
          after == SxmlCols(sxml_to_process)
      IN /\ \A c \in DOMAIN before :
               /\ c \in DOMAIN after
               /\ \A f \in AttrFields : after[c][f] = before[c][f]
         /\ \A m \in initial.mismatches :
               \A f \in m.details \cap AttrFields :
                  \E r \in final.mismatches : r.column = m.column /\ f \in r.details

\* a pass that normalised a start value while a precision mismatch was
\* reported before and after
C12_Witness ==
    /\ PassDone
    /\ Recorded("reset")
    /\ \E m \in initial.mismatches : "precision" \in m.details
    /\ \E m \in final.mismatches : "precision" \in m.details

\* the places of a string where a tag follows a tag
TagPairs(s) == {i \in 1..(Len(s) - 1) : s[i].k # "text" /\ s[i + 1].k # "text"}

\* the strings that differ from s only in whitespace between tags, in the
\* declaration, or in whitespace at either end
LayoutVariants(s) ==
    {InsertBefore(s, i + 1, <<T(NL)>>) : i \in TagPairs(s)}
    \cup {SubSeq(s, 1, i - 1) \o SubSeq(s, i + 1, Len(s)) :
            i \in {j \in 2..(Len(s) - 1) :
                     IsWs(s[j]) /\ s[j - 1].k # "text" /\ s[j + 1].k # "text"}}
    \cup {<<Decl>> \o SelectSeq(s, LAMBDA tok : tok.k # "decl"),
          SelectSeq(s, LAMBDA tok : tok.k # "decl"),
          <<T(NL)>> \o s, s \o <<T(NL)>>, Spaced(s)}

\* the strings that are s with one element added or one element removed
ElementVariants(s) ==
    {InsertBefore(s, i, <<E("NOT_NULL")>>) : i \in 2..Len(s)}
    \cup (IF Parses(s)
          THEN {SubSeq(s, 1, i - 1) \o SubSeq(s, EndOf(s, Stacks(s), i) + 1, Len(s)) :
                  i \in {j \in 1..Len(s) : IsStart(s[j]) /\ Stacks(s)[j] # <<>>}}
          ELSE {})

\* get_git_diff has seen a diff with the two marker lines
Compared ==
    /\ pc = "log"
    /\ git.final_diff_output.snapshot \/ git.applied_fixes # <<>>
    /\ baseline.sxml # NoDoc

\* C13: semantic equality of metadata strings. are_sxml_semantically_equal
\* is true of two strings that differ only in whitespace between tags, in the
\* declaration, or in whitespace at either end; false when one of them has an
\* element more or less than the other; reflexive; and symmetric.
C13_SemanticEquality ==
    Compared =>
      /\ LET s == baseline.sxml IN
            /\ are_sxml_semantically_equal(s, s)
            /\ \A v \in LayoutVariants(s) :
                  /\ are_sxml_semantically_equal(s, v)
                  /\ are_sxml_semantically_equal(v, s)
            /\ \A v \in ElementVariants(s) :
                  /\ ~are_sxml_semantically_equal(s, v)
                  /\ ~are_sxml_semantically_equal(v, s)
      /\ are_sxml_semantically_equal(baseline.sxml, file.sxml)
           <=> are_sxml_semantically_equal(file.sxml, baseline.sxml)

\* get_git_diff found the working copy's metadata equal to the branch's,
\* which is laid out differently, and took the branch's line
C13_Witness ==
    /\ pc = "log"
    /\ git.applied_fixes = <<"Git Fix Applied: Synchronized SXML formatting with repo.">>
    /\ fixes_applied_for_log = <<>>
    /\ file_before.sxml # baseline.sxml
    /\ file.sxml = baseline.sxml

\* the place of each kind of fix in the order of the steps
Rank(type) ==
    CASE type = "repair" -> 1
      [] type = "add" -> 2
      [] type = "notnull" -> 3
      [] type = "reset" -> 4
      [] OTHER -> 5

\* the steps that have run when process_single_file is at position p
StepsRun(p) ==
    CASE p \in {"read", "parse"} -> 0
      [] p \in {"compare", "synth"} -> 1
      [] p = "notnull" -> 2
      [] p = "reset" -> 3
      [] p = "reorder" -> 4
      [] OTHER -> 5

\* C14: fixed step order within one pass. The recorded fixes are in the order
\* structural repair, synthesis, ID not-null fixup, start normalization,
\* reordering, each at most once and none before its step; structural repair
\* is recorded only when the first parse failed; the residual diff is the
\* diff of the metadata all steps have left; and the modified flag is true
\* exactly when a fix is recorded.
C14_StepOrder ==
    /\ \A i, j \in 1..Len(fixes_applied_for_log) :
          i < j => Rank(fixes_applied_for_log[i].type) < Rank(fixes_applied_for_log[j].type)
    /\ \A i \in 1..Len(fixes_applied_for_log) :
          Rank(fixes_applied_for_log[i].type) <= StepsRun(pc)
    /\ Recorded("repair") => ~Parses(original_sxml)
    /\ (pc \in {"git", "log", "done"} /\ sxml_to_process # NoDoc)
         => final = compare_ddl_and_sxml_columns(file.ddl, sxml_to_process)
    /\ file_was_modified <=> fixes_applied_for_log # <<>>

\* a pass that recorded three fixes or more, the repair and the reordering
\* among them
C14_Witness ==
    /\ PassDone
    /\ Len(fixes_applied_for_log) >= 3
    /\ Recorded("repair") /\ Recorded("reorder")

\* C15: a file with no fix is left untouched. When a pass over parseable
\* metadata applies no fix, the content of the file when process_single_file
\* returns is its content when the pass began, whatever the diff against the
\* branch shows.
C15_NoFixFileUntouched ==
    (PassDone /\ Parses(original_sxml) /\ ~file_was_modified)
    => /\ writes = 0
       /\ file = file_before

\* C15 for a working copy the branch holds as it is, and for a path that git
\* has nothing to compare with
C15_NoFixFileUntouchedCleanTree ==
    (/\ PassDone /\ Parses(original_sxml) /\ ~file_was_modified
     /\ baseline.repo = "tracked" => baseline = Committed(file_before))
    => /\ writes = 0
       /\ file = file_before

\* the last diff get_git_diff obtained is empty
LastDiffEmpty ==
    /\ git.calls > 0
    /\ git.report # <<"Git command failed.">>
    /\ git.final_diff_output = EmptyDiff

\* C16: clean-diff detection. process_single_file takes the diff as clean
\* exactly when the last diff get_git_diff obtained is empty, also when
\* get_git_diff applied fixes of its own before the diff became empty; and
\* get_git_diff runs the diff command at most five times.
C16_CleanDiffDetection ==
    /\ git.calls <= GitAttempts
    /\ PassDone => (is_diff_clean <=> LastDiffEmpty)

\* C16 for the runs in which get_git_diff applied no fix of its own
C16_CleanDiffDetectionWithoutGitFix ==
    /\ git.calls <= GitAttempts
    /\ (PassDone /\ git.applied_fixes = <<>>) => (is_diff_clean <=> LastDiffEmpty)

\* the reorder fix of the pass
ReorderFix ==
    fixes_applied_for_log[Len(fixes_applied_for_log)]

\* the metadata handed to the reorder step and the DDL name the same columns
SameColumns ==
    Range(ColumnOrder(pre_reorder)) = Range(DdlOrderedCols(file.ddl))

\* C17: the recorded orderings of the reorder fix are truthful. Whenever a
\* reorder fix is recorded, its old ordering is the column-name sequence of
\* the metadata handed to the reorder step and its new ordering is the
\* column-name sequence of the metadata the step returned.
C17_ReorderRecordTruthful ==
    (pc = "final" /\ Recorded("reorder"))
    => /\ ReorderFix.type = "reorder"
       /\ ReorderFix.old_order = ColumnOrder(pre_reorder)
       /\ ReorderFix.new_order = ColumnOrder(sxml_to_process)

\* C17 for metadata and DDL that name the same columns
C17_ReorderRecordTruthfulSameColumns ==
    (pc = "final" /\ Recorded("reorder") /\ SameColumns)
    => /\ ReorderFix.type = "reorder"
       /\ ReorderFix.old_order = ColumnOrder(pre_reorder)
       /\ ReorderFix.new_order = ColumnOrder(sxml_to_process)

\* C18: reordering reaches a fixpoint. Applied to its own output with the
\* same DDL, reorder_sxml_columns_to_match_ddl reports was_reordered = FALSE
\* and returns the metadata unchanged; and a pass over the metadata an
\* earlier pass left records no reorder fix.
C18_ReorderFixpoint ==
    /\ (pc = "final" /\ reorder_result.was_reordered)
         => LET again == reorder_sxml_columns_to_match_ddl(file.ddl, sxml_to_process)
            IN /\ ~again.was_reordered
               /\ again.sxml = sxml_to_process
    /\ (PassDone /\ prev.ran /\ original_sxml = prev.sxml) => ~Recorded("reorder")

\* C18 for metadata and DDL that name the same columns
C18_ReorderFixpointSameColumns ==
    /\ (pc = "final" /\ reorder_result.was_reordered /\ SameColumns)
         => LET again == reorder_sxml_columns_to_match_ddl(file.ddl, sxml_to_process)
            IN /\ ~again.was_reordered
               /\ again.sxml = sxml_to_process
    /\ (PassDone /\ prev.ran /\ original_sxml = prev.sxml /\ SameColumns)
         => ~Recorded("reorder")

====
